---- MODULE Spec2Model ----
(***************************************************************************)
(* Rep-judgment engine of the bench-press analyzer                         *)
(* (src/ml-backend/app/logic.py, WorkoutAnalyzer.analyze_video).           *)
(*                                                                         *)
(* One step of the model is one iteration of the frame loop (lines         *)
(* 137-295).  The detectors (YOLO boxes, MediaPipe landmarks) are outside  *)
(* the engine: what they return for a frame is the input of the step.      *)
(*                                                                         *)
(* Numbers.  Pixel coordinates are Python floats; the model keeps every    *)
(* such quantity as an integer count of 1/Unit pixel, with Unit chosen so  *)
(* that the mean of 1..5 samples, the product by 0.5 and the product by    *)
(* 0.05 of whole-pixel inputs are exact.  Float rounding is not modelled.  *)
(* Optional values are sequences: None is << >>, a present v is << v >>.   *)
(***************************************************************************)
EXTENDS Integers, Sequences, FiniteSets, TLC

\* ------------------------------------------------------------------ constants
HIP_LIFT_RATIO == <<1, 2>>          \* 0.5 as a fraction
SHALLOW_REP_RATIO == <<5, 100>>     \* 0.05 as a fraction
SMOOTHING_WINDOW_SIZE == 5

STATUS_OK == "OK"
STATUS_FAIL_HIP == "FAIL: HIP LIFT"
STATUS_FAIL_SHALLOW == "FAIL: ELBOW DEPTH"
STATUS_GOOD_REP == "GOOD REP"
STATUS_EGO_LIFT == "EGO LIFT"

\* sentinels of the rep tracker and the hysteresis margin, in pixels
SENTINEL_BAR_SHOULDER_DIST == 1000
SENTINEL_ELBOW_Y == 2000
HYSTERESIS == 30
TORSO_FALLBACK == 100

\* ------------------------------------------------------------------ numbers
Unit == 3 * 4 * 5
Px(n) == n * Unit
Abs(x) == IF x < 0 THEN -x ELSE x
Times(x, ratio) == (x * ratio[1]) \div ratio[2]

None == << >>
Some(v) == <<v>>
Val(o) == o[1]

RECURSIVE SumSeq(_)
SumSeq(s) == IF s = << >> THEN 0 ELSE Head(s) + SumSeq(Tail(s))

\* ------------------------------------------------------------------ storage
\* A path is a stem and what follows it.  str.replace('.mp4', x) of lines 109
\* and 350 of logic.py and line 226 of main.py changes a path that contains
\* '.mp4' and returns any other path as it is.
Path(stem, suffix) == [stem |-> stem, suffix |-> suffix]
Replace(p, suffix) == IF p.suffix = ".mp4" THEN Path(p.stem, suffix) ELSE p
TempOutput(p) == Replace(p, "_temp.mp4")
JsonPath(p) == Replace(p, ".json")

MODEL_PATH == Path("best", ".pt")
INPUT_VIDEO == Path("in", ".mp4")
OUTPUT_VIDEO == Path("out", ".mp4")
OUTPUT_AVI == Path("out", ".avi")
\* the DELETE call: where it is, its parameters, whether a removal failed, and
\* (history) what was on storage and whether a run was in flight when it began
NoDelete == [pc |-> "idle", original |-> None, processed |-> None,
             errors |-> FALSE, inflight |-> FALSE, before |-> {}]

\* ------------------------------------------------------------------ bounds
MaxFrames == 4
\* frames of a run in the specifications that keep the observation log and the
\* history of frames (SpecLog, SpecRep, SpecSmooth)
MaxLogFrames == 3
MaxRepFrames == 4
MaxSmoothFrames == 7
MaxReuseFrames == 2
MaxStreamFrames == 3
MaxMetaFrames == 3
\* background runs the service accepts, and frames of each: in SpecApi, with
\* the whole storage and DELETE, and in SpecRuns, where the runs are concurrent
MaxTasks == 1
MaxTaskFrames == 1
MaxRuns == 2
MaxRunFrames == 1
\* one run at a time, to either output path (SpecPaths)
MaxPathRuns == 1
MaxPathFrames == 3

\* what the detectors can return for one frame, in whole pixels
BenchTops == {100}
BarBottoms == {60, 90, 1020}
HipYs == {0, 100, 120, 130}
ElbowYs == {90, 104}
ShoulderYs == {50}
FpsVals == {0, 30}

Poses == [hip : HipYs, elbow : ElbowYs, shoulder : ShoulderYs]
Opt(S) == {None} \cup {Some(v) : v \in S}
FrameInputs == [bench : Opt(BenchTops), bar : Opt(BarBottoms), pose : Opt(Poses)]

\* smaller alphabets for the specifications that keep every frame of the run
\* SpecLog: every coordinate non-zero, or one of them at 0
LogPoses == {[hip |-> 120, elbow |-> 104, shoulder |-> 50],
             [hip |-> 0, elbow |-> 104, shoulder |-> 50],
             [hip |-> 120, elbow |-> 0, shoulder |-> 50],
             [hip |-> 120, elbow |-> 104, shoulder |-> 0]}
LogInputs == [bench : Opt(BenchTops), bar : Opt({60}), pose : Opt(LogPoses)]
\* SpecRep: pose on every frame, bar to shoulder distances 10, 40, 50, 90, 130
RepBarBottoms == {60, 90, 100, 140, 180}
RepInputs == [bench : Opt(BenchTops), bar : Opt(RepBarBottoms),
              pose : {Some([hip |-> 120, elbow |-> 104, shoulder |-> 50])}]
\* SpecMeta: the stream length only
MetaInputs == [bench : Opt(BenchTops), bar : {None},
               pose : Opt({[hip |-> 120, elbow |-> 104, shoulder |-> 50]})]
\* SpecSmooth: elbow samples only
SmoothInputs == [bench : {None}, bar : {None},
                 pose : Opt([hip : {120}, elbow : ElbowYs, shoulder : ShoulderYs])]

VARIABLES
    pc,                       \* "ready" | "loop" | "returned" | "raised"
    is_in_rep, min_bar_shoulder_dist, min_elbow_y_at_bottom,   \* self.*
    baseline_hip_bench_dist, dynamic_hip_threshold,
    hip_lift_status, shallow_rep_status,
    elbow_y_buffer, frame_idx, fps,
    total_frames,             \* CAP_PROP_FRAME_COUNT, what the container announces
    bench_box, bar_box, pose_landmarks,     \* detections of the frame last read
    fired,                    \* rules of the rep state machine taken on that frame
    bench_ever,               \* history: some frame of this run had a bench box
    overall_status, results,
    smoothed_elbow_y,         \* of that frame; None when line 204 was not reached
    avg_torso_length,         \* of that frame; None when line 232 was not reached
    time_series_data,
    trace,                    \* history: detections and rules taken, frame by frame
    \* the service of main.py and the storage it shares with the runs
    files,                    \* the paths that exist on storage
    heap,                     \* the WorkoutAnalyzer objects constructed so far
    tasks,                    \* the background runs, in the order they were added
    response,                 \* what the POST /analyze handled by the last step answered
    del                       \* the DELETE /videos/{id} call

vars == <<pc, is_in_rep, min_bar_shoulder_dist, min_elbow_y_at_bottom,
          baseline_hip_bench_dist, dynamic_hip_threshold,
          hip_lift_status, shallow_rep_status,
          elbow_y_buffer, frame_idx, fps, total_frames,
          bench_box, bar_box, pose_landmarks, fired, bench_ever,
          overall_status, results,
          smoothed_elbow_y, avg_torso_length, time_series_data, trace,
          files, heap, tasks, response, del>>

service == <<files, heap, tasks, response, del>>
engine == <<pc, is_in_rep, min_bar_shoulder_dist, min_elbow_y_at_bottom,
            baseline_hip_bench_dist, dynamic_hip_threshold,
            hip_lift_status, shallow_rep_status,
            elbow_y_buffer, frame_idx, fps, total_frames,
            bench_box, bar_box, pose_landmarks, fired, bench_ever,
            overall_status, results,
            smoothed_elbow_y, avg_torso_length, time_series_data, trace>>

\* ------------------------------------------------------------------ engine
\* bug variant: a plain list, nothing is evicted
DequeAppendNoEvict(buf, x) == Append(buf, x)

\* deque(maxlen=SMOOTHING_WINDOW_SIZE).append
DequeAppend(buf, x) ==
    IF Len(buf) < SMOOTHING_WINDOW_SIZE THEN Append(buf, x)
    ELSE Append(Tail(buf), x)

\* sum(elbow_y_buffer) / len(elbow_y_buffer)
Smoothed(buf) == SumSeq(buf) \div Len(buf)

\* bug variant: the baseline is re-derived when a smaller distance is seen
NeedsBaselineOrSmaller(base, dist) == base = None \/ dist < Val(base)

\* line 212: a baseline is established only while none exists
NeedsBaseline(base, dist) == base = None

\* bug variant: the threshold is left out of the comparison
HipLiftViolationNoThreshold(dist, base, thr) == dist > base

\* bug variant: >= in place of >
HipLiftViolationGe(dist, base, thr) == dist >= base + thr

\* line 217: current_hip_bench_dist > baseline_hip_bench_dist + dynamic_hip_threshold
HipLiftViolation(dist, base, thr) == dist > base + thr

\* bug variant: the status is recomputed on every frame instead of latched
HipLiftStepNotSticky(base, thr, status, hip_y, bench_top) ==
    LET dist == Abs(hip_y - bench_top)
        base1 == IF NeedsBaseline(base, dist) THEN Some(dist) ELSE base
        thr1 == IF NeedsBaseline(base, dist) THEN Some(Times(dist, HIP_LIFT_RATIO)) ELSE thr
    IN  [base |-> base1,
         thr |-> thr1,
         status |-> IF HipLiftViolation(dist, Val(base1), Val(thr1))
                    THEN STATUS_FAIL_HIP ELSE STATUS_OK]

\* Hip lift detection, lines 207-218: the baseline and the status after a frame
\* with pose and bench box.  The check of line 217 runs on the calibration frame
\* too, against the baseline that frame has just set.
HipLiftStep(base, thr, status, hip_y, bench_top) ==
    LET dist == Abs(hip_y - bench_top)
        base1 == IF NeedsBaseline(base, dist) THEN Some(dist) ELSE base
        thr1 == IF NeedsBaseline(base, dist) THEN Some(Times(dist, HIP_LIFT_RATIO)) ELSE thr
    IN  [base |-> base1,
         thr |-> thr1,
         status |-> IF HipLiftViolation(dist, Val(base1), Val(thr1))
                    THEN STATUS_FAIL_HIP ELSE status]

\* avg_torso_length, line 232: `x if current_shoulder_y and current_hip_y else 100`
\* tests truthiness, and a coordinate of 0.0 is false
TorsoLength(shoulder_y, hip_y) ==
    IF shoulder_y # 0 /\ hip_y # 0 THEN Abs(shoulder_y - hip_y) ELSE Px(TORSO_FALLBACK)

\* line 236, REP START
StartGuard(tr, dist) == ~tr.is_in_rep /\ dist < tr.min_dist - Px(HYSTERESIS)

\* bug variant: <= in place of <
ExtendGuardLe(tr, dist) == tr.is_in_rep /\ dist <= tr.min_dist

\* bug variant: the hysteresis margin of Start applied to the running minimum
ExtendGuardWithMargin(tr, dist) == tr.is_in_rep /\ dist < tr.min_dist - Px(HYSTERESIS)

\* bug variant: `self.is_in_rep and` left out
ExtendGuardIdle(tr, dist) == dist < tr.min_dist

\* line 242, REP IN-PROGRESS
ExtendGuard(tr, dist) == tr.is_in_rep /\ dist < tr.min_dist

\* bug variant: >= in place of >
EndGuardGe(tr, dist) == tr.is_in_rep /\ dist >= tr.min_dist + Px(HYSTERESIS)

\* line 247, REP END
EndGuard(tr, dist) == tr.is_in_rep /\ dist > tr.min_dist + Px(HYSTERESIS)

\* bug variant: a missing bench box is read as a bench top of 0
JudgedShallowNoBenchGate(tr, bench, shallow_thr) ==
    tr.min_elbow > (IF bench = None THEN 0 ELSE Val(bench)) + shallow_thr

\* lines 248-250: the judgment at the end of a rep
JudgedShallow(tr, bench, shallow_thr) ==
    bench # None /\ tr.min_elbow > Val(bench) + shallow_thr

Rules == {"start", "extend", "end"}

\* bug variant: three independent `if`s, and Start leaves the tracked minimum as
\* it was, so that a later guard can pass on the frame that started the rep
RepStepIfChain(tr, shallow, dist, elbow, bench, shallow_thr) ==
    LET start == StartGuard(tr, dist)
        tr1 == IF start THEN [tr EXCEPT !.is_in_rep = TRUE, !.min_elbow = elbow] ELSE tr
        extend == ExtendGuard(tr1, dist)
        tr2 == IF extend THEN [tr1 EXCEPT !.min_dist = dist, !.min_elbow = elbow] ELSE tr1
        end == EndGuard(tr2, dist)
    IN  [is_in_rep |-> IF end THEN FALSE ELSE tr2.is_in_rep,
         min_dist |-> IF end THEN Px(SENTINEL_BAR_SHOULDER_DIST) ELSE tr2.min_dist,
         min_elbow |-> IF end THEN Px(SENTINEL_ELBOW_Y) ELSE tr2.min_elbow,
         shallow |-> IF end /\ JudgedShallow(tr2, bench, shallow_thr)
                     THEN STATUS_FAIL_SHALLOW ELSE shallow,
         fired |-> {r \in Rules : \/ r = "start" /\ start
                                  \/ r = "extend" /\ extend
                                  \/ r = "end" /\ end}]

\* bug variant: the reset of lines 254-256 indented under `if bench_box:`
RepStepResetUnderBench(tr, shallow, dist, elbow, bench, shallow_thr) ==
    LET start == StartGuard(tr, dist)
        extend == ~start /\ ExtendGuard(tr, dist)
        end == ~start /\ ~extend /\ EndGuard(tr, dist)
        reset == end /\ bench # None
    IN  [is_in_rep |-> IF start THEN TRUE ELSE IF reset THEN FALSE ELSE tr.is_in_rep,
         min_dist |-> IF start \/ extend THEN dist
                      ELSE IF reset THEN Px(SENTINEL_BAR_SHOULDER_DIST) ELSE tr.min_dist,
         min_elbow |-> IF start \/ extend THEN elbow
                       ELSE IF reset THEN Px(SENTINEL_ELBOW_Y) ELSE tr.min_elbow,
         shallow |-> IF end /\ JudgedShallow(tr, bench, shallow_thr)
                     THEN STATUS_FAIL_SHALLOW ELSE shallow,
         fired |-> {r \in Rules : \/ r = "start" /\ start
                                  \/ r = "extend" /\ extend
                                  \/ r = "end" /\ end}]

\* bug variant: Extend stores the new minimum but keeps the elbow of Start
RepStepElbowAtStart(tr, shallow, dist, elbow, bench, shallow_thr) ==
    LET start == StartGuard(tr, dist)
        extend == ~start /\ ExtendGuard(tr, dist)
        end == ~start /\ ~extend /\ EndGuard(tr, dist)
    IN  [is_in_rep |-> IF start THEN TRUE ELSE IF end THEN FALSE ELSE tr.is_in_rep,
         min_dist |-> IF start \/ extend THEN dist
                      ELSE IF end THEN Px(SENTINEL_BAR_SHOULDER_DIST) ELSE tr.min_dist,
         min_elbow |-> IF start THEN elbow
                       ELSE IF end THEN Px(SENTINEL_ELBOW_Y) ELSE tr.min_elbow,
         shallow |-> IF end /\ JudgedShallow(tr, bench, shallow_thr)
                     THEN STATUS_FAIL_SHALLOW ELSE shallow,
         fired |-> {r \in Rules : \/ r = "start" /\ start
                                  \/ r = "extend" /\ extend
                                  \/ r = "end" /\ end}]

\* bug variant: the depth is judged as soon as a new bottom is stored, not at
\* the end of the rep
RepStepJudgesAtBottom(tr, shallow, dist, elbow, bench, shallow_thr) ==
    LET start == StartGuard(tr, dist)
        extend == ~start /\ ExtendGuard(tr, dist)
        end == ~start /\ ~extend /\ EndGuard(tr, dist)
    IN  [is_in_rep |-> IF start THEN TRUE ELSE IF end THEN FALSE ELSE tr.is_in_rep,
         min_dist |-> IF start \/ extend THEN dist
                      ELSE IF end THEN Px(SENTINEL_BAR_SHOULDER_DIST) ELSE tr.min_dist,
         min_elbow |-> IF start \/ extend THEN elbow
                       ELSE IF end THEN Px(SENTINEL_ELBOW_Y) ELSE tr.min_elbow,
         shallow |-> IF (start \/ extend) /\ bench # None /\ elbow > Val(bench) + shallow_thr
                     THEN STATUS_FAIL_SHALLOW ELSE shallow,
         fired |-> {r \in Rules : \/ r = "start" /\ start
                                  \/ r = "extend" /\ extend
                                  \/ r = "end" /\ end}]

\* Rep state machine, lines 235-256, as the if / elif / elif chain evaluates it:
\* a guard is tested only when no earlier branch was taken.  The result is the
\* tracker, the shallow status and the set of rules taken.
RepStep(tr, shallow, dist, elbow, bench, shallow_thr) ==
    LET start == StartGuard(tr, dist)
        extend == ~start /\ ExtendGuard(tr, dist)
        end == ~start /\ ~extend /\ EndGuard(tr, dist)
    IN  [is_in_rep |-> IF start THEN TRUE ELSE IF end THEN FALSE ELSE tr.is_in_rep,
         min_dist |-> IF start \/ extend THEN dist
                      ELSE IF end THEN Px(SENTINEL_BAR_SHOULDER_DIST) ELSE tr.min_dist,
         min_elbow |-> IF start \/ extend THEN elbow
                       ELSE IF end THEN Px(SENTINEL_ELBOW_Y) ELSE tr.min_elbow,
         shallow |-> IF end /\ JudgedShallow(tr, bench, shallow_thr)
                     THEN STATUS_FAIL_SHALLOW ELSE shallow,
         fired |-> {r \in Rules : \/ r = "start" /\ start
                                  \/ r = "extend" /\ extend
                                  \/ r = "end" /\ end}]

\* bug variant: a frame without bench box or pose forgets the calibration
HipSkippedForgetsBaseline(base, thr, status) ==
    [base |-> None, thr |-> None, status |-> status]

\* `if bench_box:` of line 207 (inside `if pose_results.pose_landmarks:`) not
\* taken: the hip lift state is left alone
HipSkipped(base, thr, status) == [base |-> base, thr |-> thr, status |-> status]

\* bug variant: a frame without barbell abandons the rep in progress
RepSkippedResets(tr, shallow) ==
    [is_in_rep |-> FALSE, min_dist |-> Px(SENTINEL_BAR_SHOULDER_DIST),
     min_elbow |-> Px(SENTINEL_ELBOW_Y), shallow |-> shallow, fired |-> {}]

\* bug variant: a frame without barbell clears the shallow status
RepSkippedClearsShallow(tr, shallow) ==
    [is_in_rep |-> tr.is_in_rep, min_dist |-> tr.min_dist, min_elbow |-> tr.min_elbow,
     shallow |-> STATUS_OK, fired |-> {}]

\* `if bar_box:` of line 224 (inside the pose branch) not taken: the tracker and
\* the shallow status are left alone and no rule is taken
RepSkipped(tr, shallow) ==
    [is_in_rep |-> tr.is_in_rep, min_dist |-> tr.min_dist, min_elbow |-> tr.min_elbow,
     shallow |-> shallow, fired |-> {}]

\* bug variant: `and` in place of `or`
OverallStatusAnd(hip, shallow) ==
    IF hip # STATUS_OK /\ shallow # STATUS_OK THEN STATUS_EGO_LIFT ELSE STATUS_GOOD_REP

\* lines 331-334 (and 277-282, per frame)
OverallStatus(hip, shallow) ==
    IF hip # STATUS_OK \/ shallow # STATUS_OK THEN STATUS_EGO_LIFT ELSE STATUS_GOOD_REP

\* ------------------------------------------------------------------ actions
InitEngine ==
    /\ pc = "ready"
    /\ is_in_rep = FALSE
    /\ min_bar_shoulder_dist = Px(SENTINEL_BAR_SHOULDER_DIST)
    /\ min_elbow_y_at_bottom = Px(SENTINEL_ELBOW_Y)
    /\ baseline_hip_bench_dist = None
    /\ dynamic_hip_threshold = None
    /\ hip_lift_status = STATUS_OK
    /\ shallow_rep_status = STATUS_OK
    /\ elbow_y_buffer = << >>
    /\ frame_idx = 0
    /\ fps = 0
    /\ total_frames = 0
    /\ bench_box = None
    /\ bar_box = None
    /\ pose_landmarks = None
    /\ fired = {}
    /\ bench_ever = FALSE
    /\ overall_status = None
    /\ results = None
    /\ smoothed_elbow_y = None
    /\ avg_torso_length = None
    /\ time_series_data = << >>
    /\ trace = << >>

\* the service has just started: nothing accepted, nothing constructed
InitService ==
    /\ heap = << >>
    /\ tasks = << >>
    /\ response = None
    /\ del = NoDelete

Init ==
    /\ InitEngine
    /\ InitService
    /\ files = {INPUT_VIDEO, MODEL_PATH}

\* analyze_video up to the loop, lines 86-128
AnalyzeVideo(f, n) ==
    /\ pc = "ready"
    /\ pc' = "loop"
    /\ fps' = f
    /\ total_frames' = n
    /\ baseline_hip_bench_dist' = None
    /\ dynamic_hip_threshold' = None
    /\ hip_lift_status' = STATUS_OK
    /\ shallow_rep_status' = STATUS_OK
    /\ elbow_y_buffer' = << >>
    /\ frame_idx' = 0
    /\ bench_box' = None
    /\ bar_box' = None
    /\ pose_landmarks' = None
    /\ fired' = {}
    /\ bench_ever' = FALSE
    /\ overall_status' = None
    /\ results' = None
    /\ smoothed_elbow_y' = None
    /\ avg_torso_length' = None
    /\ time_series_data' = << >>
    /\ trace' = << >>
    /\ UNCHANGED <<is_in_rep, min_bar_shoulder_dist, min_elbow_y_at_bottom>>

\* one iteration of the frame loop, lines 137-295, on the detections in, but
\* for the record appended to time_series_data (see Logged)
Frame(in) ==
    /\ pc = "loop"
    /\ frame_idx' = frame_idx + 1
    /\ bench_box' = IF in.bench = None THEN None ELSE Some(Px(Val(in.bench)))
    /\ bar_box' = IF in.bar = None THEN None ELSE Some(Px(Val(in.bar)))
    /\ pose_landmarks' =
          IF in.pose = None THEN None
          ELSE Some([hip |-> Px(Val(in.pose).hip),
                     elbow |-> Px(Val(in.pose).elbow),
                     shoulder |-> Px(Val(in.pose).shoulder)])
    /\ LET p == Val(pose_landmarks')
           buf == IF pose_landmarks' = None THEN elbow_y_buffer
                  ELSE DequeAppend(elbow_y_buffer, p.elbow)
           h == IF pose_landmarks' # None /\ bench_box' # None
                THEN HipLiftStep(baseline_hip_bench_dist, dynamic_hip_threshold,
                                 hip_lift_status, p.hip, Val(bench_box'))
                ELSE HipSkipped(baseline_hip_bench_dist, dynamic_hip_threshold,
                                hip_lift_status)
           tr == [is_in_rep |-> is_in_rep, min_dist |-> min_bar_shoulder_dist,
                  min_elbow |-> min_elbow_y_at_bottom]
           r == IF pose_landmarks' # None /\ bar_box' # None
                THEN RepStep(tr, shallow_rep_status,
                             Abs(Val(bar_box') - p.shoulder), Smoothed(buf), bench_box',
                             Times(TorsoLength(p.shoulder, p.hip), SHALLOW_REP_RATIO))
                ELSE RepSkipped(tr, shallow_rep_status)
       IN  /\ elbow_y_buffer' = buf
           /\ smoothed_elbow_y' =
                 IF pose_landmarks' # None THEN Some(Smoothed(buf)) ELSE None
           /\ avg_torso_length' =
                 IF pose_landmarks' # None /\ bar_box' # None
                 THEN Some(TorsoLength(p.shoulder, p.hip)) ELSE None
           /\ baseline_hip_bench_dist' = h.base
           /\ dynamic_hip_threshold' = h.thr
           /\ is_in_rep' = r.is_in_rep
           /\ min_bar_shoulder_dist' = r.min_dist
           /\ min_elbow_y_at_bottom' = r.min_elbow
           /\ fired' = r.fired
           /\ hip_lift_status' = h.status
           /\ shallow_rep_status' = r.shallow
           \* line 261: frame_idx / fps raises ZeroDivisionError when fps = 0 and
           \* the call ends there, before the overall status of line 277
           /\ IF fps = 0
              THEN pc' = "raised" /\ UNCHANGED overall_status
              ELSE pc' = "loop" /\ overall_status' = Some(OverallStatus(h.status, r.shallow))
    /\ bench_ever' = (bench_ever \/ bench_box' # None)
    /\ UNCHANGED <<fps, total_frames, results>>

\* bug variant: `continue` in place of `break` when no frame is read
FinishNever ==
    /\ pc = "loop"
    /\ UNCHANGED vars

\* cap.read() returns no frame: the loop ends and the result is built, lines
\* 297-354.  total_frames is the count read from the container at line 101;
\* video_duration = total_frames / fps is kept as the pair << numerator,
\* denominator >>, and is 0 when fps is 0 (line 345).
Finish ==
    /\ pc = "loop"
    /\ pc' = "returned"
    /\ overall_status' = Some(OverallStatus(hip_lift_status, shallow_rep_status))
    /\ results' = Some([overall_status |-> OverallStatus(hip_lift_status, shallow_rep_status),
                        hip_lift_status |-> hip_lift_status,
                        shallow_rep_status |-> shallow_rep_status,
                        hip_lift_detected |-> hip_lift_status # STATUS_OK,
                        shallow_rep_detected |-> shallow_rep_status # STATUS_OK,
                        total_frames |-> total_frames,
                        fps |-> fps,
                        video_duration |-> IF fps > 0 THEN <<total_frames, fps>>
                                           ELSE <<0, 1>>])
    /\ UNCHANGED <<is_in_rep, min_bar_shoulder_dist, min_elbow_y_at_bottom,
                   baseline_hip_bench_dist, dynamic_hip_threshold,
                   hip_lift_status, shallow_rep_status, elbow_y_buffer, frame_idx, fps,
                   total_frames,
                   bench_box, bar_box, pose_landmarks, fired, bench_ever,
                   smoothed_elbow_y, avg_torso_length, time_series_data, trace>>

\* bug variant: a missing coordinate is recorded as 0 instead of None
RecordZeroFilled(i, f, pose, bench, bar) ==
    [frame |-> i,
     timestamp |-> <<i, f>>,
     hip_y |-> IF pose # None THEN Some(Val(pose).hip) ELSE Some(0),
     elbow_y |-> IF pose # None THEN Some(Val(pose).elbow) ELSE Some(0),
     shoulder_y |-> IF pose # None THEN Some(Val(pose).shoulder) ELSE Some(0),
     bench_detected |-> bench # None,
     bar_detected |-> bar # None]

\* The record of lines 259-267.  `float(x) if x else None` tests truthiness: a
\* coordinate of 0.0 is recorded as None.  The timestamp frame_idx / fps is kept
\* as the pair << numerator, denominator >>.
Record(i, f, pose, bench, bar) ==
    [frame |-> i,
     timestamp |-> <<i, f>>,
     hip_y |-> IF pose # None /\ Val(pose).hip # 0 THEN Some(Val(pose).hip) ELSE None,
     elbow_y |-> IF pose # None /\ Val(pose).elbow # 0
                 THEN Some(Val(pose).elbow) ELSE None,
     shoulder_y |-> IF pose # None /\ Val(pose).shoulder # 0
                    THEN Some(Val(pose).shoulder) ELSE None,
     bench_detected |-> bench # None,
     bar_detected |-> bar # None]

\* bug variant: the record is appended inside the pose branch
LoggedOnlyWithPose ==
    time_series_data' =
        IF fps = 0 \/ pose_landmarks' = None THEN time_series_data
        ELSE Append(time_series_data,
                    Record(frame_idx', fps, pose_landmarks', bench_box', bar_box'))

\* time_series_data.append of line 259, on the frame a Frame step has processed;
\* when fps = 0 building the record raises (line 261) and nothing is appended
Logged ==
    time_series_data' =
        IF fps = 0 THEN time_series_data
        ELSE Append(time_series_data,
                    Record(frame_idx', fps, pose_landmarks', bench_box', bar_box'))

\* the history of the frames processed: detections, and rules taken
Traced ==
    trace' = Append(trace, [pose |-> pose_landmarks', bench |-> bench_box',
                            bar |-> bar_box', fired |-> fired'])

\* one whole iteration of the frame loop, lines 137-295
FrameLogged(in) == Frame(in) /\ Logged /\ Traced

\* In the specifications of one stream length the container announces the
\* longest stream the specification reads; SpecMeta lets it announce any count.
\* Spec follows the engine only.  No statement of the loop reads
\* time_series_data, so the engine's behaviour is the same with the log left
\* out; the specifications below keep it, over smaller alphabets.
Next ==
    \/ (\E f \in FpsVals : AnalyzeVideo(f, MaxFrames)) /\ UNCHANGED service
    \/ /\ frame_idx < MaxFrames
       /\ \E in \in FrameInputs : Frame(in) /\ UNCHANGED <<time_series_data, trace>>
       /\ UNCHANGED service
    \/ Finish /\ UNCHANGED service

Spec == Init /\ [][Next]_vars

NextLog ==
    \/ (\E f \in FpsVals : AnalyzeVideo(f, MaxLogFrames)) /\ UNCHANGED service
    \/ /\ frame_idx < MaxLogFrames
       /\ \E in \in LogInputs : FrameLogged(in)
       /\ UNCHANGED service
    \/ Finish /\ UNCHANGED service

SpecLog == Init /\ [][NextLog]_vars

NextRep ==
    \/ (\E f \in FpsVals : AnalyzeVideo(f, MaxRepFrames)) /\ UNCHANGED service
    \/ /\ frame_idx < MaxRepFrames
       /\ \E in \in RepInputs : FrameLogged(in)
       /\ UNCHANGED service
    \/ Finish /\ UNCHANGED service

SpecRep == Init /\ [][NextRep]_vars

NextSmooth ==
    \/ (\E f \in FpsVals : AnalyzeVideo(f, MaxSmoothFrames)) /\ UNCHANGED service
    \/ /\ frame_idx < MaxSmoothFrames
       /\ \E in \in SmoothInputs : FrameLogged(in)
       /\ UNCHANGED service
    \/ Finish /\ UNCHANGED service

SpecSmooth == Init /\ [][NextSmooth]_vars

\* SpecStream: one run over a stream of at most MaxStreamFrames frames.  The
\* run is sequential code on its own thread: whenever it has a next statement
\* it executes one, which is weak fairness of its steps.
NextStream ==
    \/ (\E f \in FpsVals : AnalyzeVideo(f, MaxStreamFrames)) /\ UNCHANGED service
    \/ /\ frame_idx < MaxStreamFrames
       /\ \E in \in RepInputs : FrameLogged(in)
       /\ UNCHANGED service
    \/ Finish /\ UNCHANGED service

SpecStream == Init /\ [][NextStream]_vars /\ WF_vars(NextStream)

\* SpecMeta: the frame count of the container (line 101) is metadata, read
\* before any frame is decoded, and the loop ends when cap.read() fails (line
\* 139): the two are independent inputs of a run.
FrameCounts == 0..MaxMetaFrames
NextMeta ==
    \/ (\E f \in FpsVals, n \in FrameCounts : AnalyzeVideo(f, n)) /\ UNCHANGED service
    \/ /\ frame_idx < MaxMetaFrames
       /\ \E in \in MetaInputs : FrameLogged(in)
       /\ UNCHANGED service
    \/ Finish /\ UNCHANGED service

SpecMeta == Init /\ [][NextMeta]_vars

\* The caller keeps the WorkoutAnalyzer after a call has returned and is about
\* to call analyze_video on it again: the attributes set by __init__ (lines
\* 60-62) are those the last call left, and nothing of the object changes.
Recall ==
    /\ pc = "returned"
    /\ pc' = "ready"
    /\ UNCHANGED <<is_in_rep, min_bar_shoulder_dist, min_elbow_y_at_bottom,
                   baseline_hip_bench_dist, dynamic_hip_threshold,
                   hip_lift_status, shallow_rep_status, elbow_y_buffer, frame_idx, fps,
                   total_frames,
                   bench_box, bar_box, pose_landmarks, fired, bench_ever,
                   overall_status, results,
                   smoothed_elbow_y, avg_torso_length, time_series_data, trace>>

\* SpecReuse: any number of runs, one after the other, on one instance
NextReuse ==
    \/ (\E f \in FpsVals : AnalyzeVideo(f, MaxReuseFrames)) /\ UNCHANGED service
    \/ /\ frame_idx < MaxReuseFrames
       /\ \E in \in RepInputs : FrameLogged(in)
       /\ UNCHANGED service
    \/ Finish /\ UNCHANGED service
    \/ Recall /\ UNCHANGED service

SpecReuse == Init /\ [][NextReuse]_vars

\* ------------------------------------------------------------------ service
\* POST /analyze and DELETE /videos/{id} of main.py, and the background runs.
\* The handlers are coroutines without await and run one at a time on the
\* event loop; process_video_background is a plain function, which the
\* framework runs on a worker thread, so the steps of a run interleave with the
\* handlers and with the steps of the other runs.  A run is followed through
\* the statements that touch storage or the analyzer object; of the frame loop
\* it keeps the rep tracker (on self) and shallow_rep_status.
Requests == [input : {INPUT_VIDEO}, output : {OUTPUT_VIDEO}]
TaskBarBottoms == {60, 100}
TaskInputs == [bench : {Some(100)}, bar : Opt(TaskBarBottoms),
               pose : {Some([hip |-> 120, elbow |-> 104, shoulder |-> 50])}]
Outcomes == {"ok", "failed", "missing"}

\* bug variant: the model is looked for before the input video
ValidateModelFirst(fs, req) ==
    IF MODEL_PATH \notin fs THEN 500
    ELSE IF req.input \notin fs THEN 404
    ELSE 202

\* main.py lines 131-143 and the decorator of line 113: the status code
Validate(fs, req) ==
    IF req.input \notin fs THEN 404
    ELSE IF MODEL_PATH \notin fs THEN 500
    ELSE 202

\* main.py lines 133-136, 140-143, 152-155: the body of the answer
Answer(code) ==
    [code |-> code,
     status |-> IF code = 202 THEN Some("processing_started") ELSE None,
     detail |-> IF code = 404 THEN Some("Input video file not found")
                ELSE IF code = 500 THEN Some("YOLO model not found") ELSE None,
     results |-> None]

\* the run of process_video_background(input_path, output_path), not started
NewTask(req, code) ==
    [pc |-> "queued", input |-> req.input, output |-> req.output, code |-> code,
     self |-> 0, frames |-> 0, shallow |-> STATUS_OK, result |-> None]

\* bug variant: the task is never added
AddTaskDropped(q, task) == q

\* background_tasks.add_task, main.py line 146
AddTask(q, task) == Append(q, task)

\* POST /analyze, main.py lines 113-155
Analyze(req) ==
    /\ response' = Some(Answer(Validate(files, req)))
    /\ tasks' = IF Validate(files, req) = 202
                THEN AddTask(tasks, NewTask(req, Validate(files, req)))
                ELSE tasks
    /\ UNCHANGED <<files, heap, del>>

\* bug variant: one analyzer of module scope, shared by the runs
SharedAnalyzer(h) ==
    IF h = << >>
    THEN [heap |-> <<[is_in_rep |-> FALSE, min_dist |-> Px(SENTINEL_BAR_SHOULDER_DIST),
                      min_elbow |-> Px(SENTINEL_ELBOW_Y)]>>, ref |-> 1]
    ELSE [heap |-> h, ref |-> 1]

\* WorkoutAnalyzer(model_path=MODEL_PATH), main.py line 167 and logic.py lines
\* 47-62: a new object, and the reference to it
NewAnalyzer(h) ==
    [heap |-> Append(h, [is_in_rep |-> FALSE,
                         min_dist |-> Px(SENTINEL_BAR_SHOULDER_DIST),
                         min_elbow |-> Px(SENTINEL_ELBOW_Y)]),
     ref |-> Len(h) + 1]

\* bug variant: what the run had found so far is kept as its result
RaisedSalvaging(task) ==
    [task EXCEPT !.pc = "failed", !.result = Some([shallow_rep_status |-> task.shallow])]

\* an exception leaves analyze_video and is swallowed by the except clause of
\* main.py lines 177-183: the run is over and has no result
Raised(task) == [task EXCEPT !.pc = "failed", !.result = None]

Construct(t) ==
    /\ tasks[t].pc = "queued"
    /\ heap' = NewAnalyzer(heap).heap
    /\ tasks' = [tasks EXCEPT ![t].pc = "constructed", ![t].self = NewAnalyzer(heap).ref]
    /\ response' = None
    /\ UNCHANGED <<files, del>>

\* logic.py lines 86-101: the input and the model are looked for, the video is
\* opened (ok: cap.isOpened())
Open(t, ok) ==
    /\ tasks[t].pc = "constructed"
    /\ tasks' = [tasks EXCEPT ![t] =
                    IF tasks[t].input \in files /\ MODEL_PATH \in files /\ ok
                    THEN [@ EXCEPT !.pc = "opened"] ELSE Raised(@)]
    /\ response' = None
    /\ UNCHANGED <<files, heap, del>>

\* logic.py lines 104-128: the writer creates the temporary output (ok:
\* out.isOpened()), the locals of the run are initialised
OpenWriter(t, ok) ==
    /\ tasks[t].pc = "opened"
    /\ IF ok
       THEN /\ files' = files \cup {TempOutput(tasks[t].output)}
            /\ tasks' = [tasks EXCEPT ![t].pc = "loop", ![t].frames = 0,
                                      ![t].shallow = STATUS_OK]
       ELSE /\ files' = files
            /\ tasks' = [tasks EXCEPT ![t] = Raised(@)]
    /\ response' = None
    /\ UNCHANGED <<heap, del>>

\* one iteration of the frame loop of run t, logic.py lines 137-295, on the
\* detections in: the rep state machine works on the object self refers to
TaskFrame(t, in) ==
    /\ tasks[t].pc = "loop"
    /\ LET p == Val(in.pose)
           r == IF in.bar # None
                THEN RepStep(heap[tasks[t].self], tasks[t].shallow,
                             Abs(Px(Val(in.bar)) - Px(p.shoulder)), Px(p.elbow),
                             Some(Px(Val(in.bench))),
                             Times(TorsoLength(Px(p.shoulder), Px(p.hip)),
                                   SHALLOW_REP_RATIO))
                ELSE RepSkipped(heap[tasks[t].self], tasks[t].shallow)
       IN  /\ heap' = [heap EXCEPT ![tasks[t].self] =
                          [is_in_rep |-> r.is_in_rep, min_dist |-> r.min_dist,
                           min_elbow |-> r.min_elbow]]
           /\ tasks' = [tasks EXCEPT ![t].frames = @ + 1, ![t].shallow = r.shallow]
    /\ response' = None
    /\ UNCHANGED <<files, del>>

\* a collaborator (the detector, the pose estimator, the writer) raises on a
\* frame, or the record of the frame divides by fps = 0 (line 261)
TaskFrameRaises(t) ==
    /\ tasks[t].pc = "loop"
    /\ tasks' = [tasks EXCEPT ![t] = Raised(@)]
    /\ response' = None
    /\ UNCHANGED <<files, heap, del>>

\* cap.read() returns no frame; capture and writer are released, lines 139-140
\* and 297-299
EndOfStream(t) ==
    /\ tasks[t].pc = "loop"
    /\ tasks' = [tasks EXCEPT ![t].pc = "transcode"]
    /\ response' = None
    /\ UNCHANGED <<files, heap, del>>

\* logic.py lines 301-328.  "ok": ffmpeg writes the output and the temporary
\* file is removed; "failed" (CalledProcessError) and "missing" (ffmpeg is not
\* installed): the temporary file is renamed to the output.  Without its input
\* ffmpeg cannot succeed, and the rename in the except clause raises; ffmpeg
\* also refuses an output that is its input, and renaming a file to itself
\* leaves it in place.
Transcode(t, outcome) ==
    /\ tasks[t].pc = "transcode"
    /\ outcome = "ok" => /\ TempOutput(tasks[t].output) \in files
                         /\ TempOutput(tasks[t].output) # tasks[t].output
    /\ IF TempOutput(tasks[t].output) \in files
       THEN /\ files' = IF outcome = "ok"
                        THEN (files \cup {tasks[t].output}) \ {TempOutput(tasks[t].output)}
                        ELSE (files \ {TempOutput(tasks[t].output)}) \cup {tasks[t].output}
            /\ tasks' = [tasks EXCEPT ![t].pc = "json"]
       ELSE /\ files' = files
            /\ tasks' = [tasks EXCEPT ![t] = Raised(@)]
    /\ response' = None
    /\ UNCHANGED <<heap, del>>

\* logic.py lines 330-354: the result is built, dumped next to the output and
\* returned
WriteJson(t) ==
    /\ tasks[t].pc = "json"
    /\ files' = files \cup {JsonPath(tasks[t].output)}
    /\ tasks' = [tasks EXCEPT
                    ![t].pc = "done",
                    ![t].result = Some([shallow_rep_status |-> tasks[t].shallow])]
    /\ response' = None
    /\ UNCHANGED <<heap, del>>

InFlight(task) == task.pc \notin {"done", "failed"}

\* DELETE /videos/{id}?original_path=o&processed_path=p is called, main.py
\* lines 186-207
DeleteRequest(o, p) ==
    /\ del.pc = "idle"
    /\ del' = [pc |-> "original", original |-> o, processed |-> p, errors |-> FALSE,
               inflight |-> \E t \in 1..Len(tasks) : InFlight(tasks[t]),
               before |-> files]
    /\ response' = None
    /\ UNCHANGED <<files, heap, tasks>>

\* main.py lines 209-215: os.remove inside try / except removes the file, or
\* fails (ok false), and then the file stays and an error is noted
DeleteOriginal(ok) ==
    /\ del.pc = "original"
    /\ IF del.original # None /\ Val(del.original) \in files
       THEN IF ok THEN /\ files' = files \ {Val(del.original)}
                       /\ del' = [del EXCEPT !.pc = "processed"]
            ELSE /\ files' = files
                 /\ del' = [del EXCEPT !.pc = "processed", !.errors = TRUE]
       ELSE /\ files' = files
            /\ del' = [del EXCEPT !.pc = "processed"]
    /\ response' = None
    /\ UNCHANGED <<heap, tasks>>

\* main.py lines 217-223; the removal of the JSON file (lines 225-232) is
\* inside this if, so it is skipped when the processed video is not there
DeleteProcessed(ok) ==
    /\ del.pc = "processed"
    /\ IF del.processed # None /\ Val(del.processed) \in files
       THEN IF ok THEN /\ files' = files \ {Val(del.processed)}
                       /\ del' = [del EXCEPT !.pc = "json"]
            ELSE /\ files' = files
                 /\ del' = [del EXCEPT !.pc = "json", !.errors = TRUE]
       ELSE /\ files' = files
            /\ del' = [del EXCEPT !.pc = "returned"]
    /\ response' = None
    /\ UNCHANGED <<heap, tasks>>

\* main.py lines 225-239
DeleteJson(ok) ==
    /\ del.pc = "json"
    /\ IF JsonPath(Val(del.processed)) \in files
       THEN IF ok THEN /\ files' = files \ {JsonPath(Val(del.processed))}
                       /\ del' = [del EXCEPT !.pc = "returned"]
            ELSE /\ files' = files
                 /\ del' = [del EXCEPT !.pc = "returned", !.errors = TRUE]
       ELSE /\ files' = files
            /\ del' = [del EXCEPT !.pc = "returned"]
    /\ response' = None
    /\ UNCHANGED <<heap, tasks>>

\* SpecApi: the service, from any content of the storage
StoredFiles == {INPUT_VIDEO, MODEL_PATH, OUTPUT_VIDEO, JsonPath(OUTPUT_VIDEO)}

InitApi ==
    /\ InitEngine
    /\ InitService
    /\ files \in SUBSET StoredFiles

\* a POST that would be accepted is taken while fewer than max runs were
Accepting(req, max) == Validate(files, req) = 202 => Len(tasks) < max

NextApi ==
    \/ /\ \E req \in Requests : Accepting(req, MaxTasks) /\ Analyze(req)
       /\ UNCHANGED engine
    \/ (\E t \in 1..Len(tasks) : Construct(t)) /\ UNCHANGED engine
    \/ (\E t \in 1..Len(tasks), ok \in BOOLEAN : Open(t, ok)) /\ UNCHANGED engine
    \/ (\E t \in 1..Len(tasks), ok \in BOOLEAN : OpenWriter(t, ok)) /\ UNCHANGED engine
    \/ /\ \E t \in 1..Len(tasks) :
             tasks[t].frames < MaxTaskFrames /\ \E in \in TaskInputs : TaskFrame(t, in)
       /\ UNCHANGED engine
    \/ (\E t \in 1..Len(tasks) : TaskFrameRaises(t)) /\ UNCHANGED engine
    \/ (\E t \in 1..Len(tasks) : EndOfStream(t)) /\ UNCHANGED engine
    \/ (\E t \in 1..Len(tasks), o \in Outcomes : Transcode(t, o)) /\ UNCHANGED engine
    \/ (\E t \in 1..Len(tasks) : WriteJson(t)) /\ UNCHANGED engine
    \/ /\ \E o \in Opt({INPUT_VIDEO}), p \in Opt({OUTPUT_VIDEO}) : DeleteRequest(o, p)
       /\ UNCHANGED engine
    \/ (\E ok \in BOOLEAN : DeleteOriginal(ok)) /\ UNCHANGED engine
    \/ (\E ok \in BOOLEAN : DeleteProcessed(ok)) /\ UNCHANGED engine
    \/ (\E ok \in BOOLEAN : DeleteJson(ok)) /\ UNCHANGED engine

SpecApi == InitApi /\ [][NextApi]_vars

\* SpecRuns: concurrent runs on a storage that holds the input and the model;
\* no DELETE
NextRuns ==
    \/ /\ \E req \in Requests : Accepting(req, MaxRuns) /\ Analyze(req)
       /\ UNCHANGED engine
    \/ (\E t \in 1..Len(tasks) : Construct(t)) /\ UNCHANGED engine
    \/ (\E t \in 1..Len(tasks), ok \in BOOLEAN : Open(t, ok)) /\ UNCHANGED engine
    \/ (\E t \in 1..Len(tasks), ok \in BOOLEAN : OpenWriter(t, ok)) /\ UNCHANGED engine
    \/ /\ \E t \in 1..Len(tasks) :
             tasks[t].frames < MaxRunFrames /\ \E in \in TaskInputs : TaskFrame(t, in)
       /\ UNCHANGED engine
    \/ (\E t \in 1..Len(tasks) : TaskFrameRaises(t)) /\ UNCHANGED engine
    \/ (\E t \in 1..Len(tasks) : EndOfStream(t)) /\ UNCHANGED engine
    \/ (\E t \in 1..Len(tasks), o \in Outcomes : Transcode(t, o)) /\ UNCHANGED engine
    \/ (\E t \in 1..Len(tasks) : WriteJson(t)) /\ UNCHANGED engine

SpecRuns == Init /\ [][NextRuns]_vars

\* SpecPaths: runs to an output path that ends in .mp4 and to one that does
\* not; no DELETE
PathRequests == [input : {INPUT_VIDEO}, output : {OUTPUT_VIDEO, OUTPUT_AVI}]
NextPaths ==
    \/ /\ \E req \in PathRequests : Accepting(req, MaxPathRuns) /\ Analyze(req)
       /\ UNCHANGED engine
    \/ (\E t \in 1..Len(tasks) : Construct(t)) /\ UNCHANGED engine
    \/ (\E t \in 1..Len(tasks), ok \in BOOLEAN : Open(t, ok)) /\ UNCHANGED engine
    \/ (\E t \in 1..Len(tasks), ok \in BOOLEAN : OpenWriter(t, ok)) /\ UNCHANGED engine
    \/ /\ \E t \in 1..Len(tasks) :
             tasks[t].frames < MaxPathFrames /\ \E in \in TaskInputs : TaskFrame(t, in)
       /\ UNCHANGED engine
    \/ (\E t \in 1..Len(tasks) : TaskFrameRaises(t)) /\ UNCHANGED engine
    \/ (\E t \in 1..Len(tasks) : EndOfStream(t)) /\ UNCHANGED engine
    \/ (\E t \in 1..Len(tasks), o \in Outcomes : Transcode(t, o)) /\ UNCHANGED engine
    \/ (\E t \in 1..Len(tasks) : WriteJson(t)) /\ UNCHANGED engine

SpecPaths == Init /\ [][NextPaths]_vars

\* ------------------------------------------------------------------ properties
\* a step that processes one frame
IsFrame == frame_idx' = frame_idx + 1
PoseAndBench == pose_landmarks # None /\ bench_box # None
PoseAndBar == pose_landmarks # None /\ bar_box # None
\* of the frame last read, defined when the detections they use are present
HipBenchDist == Abs(Val(pose_landmarks).hip - Val(bench_box))
BarShoulderDist == Abs(Val(bar_box) - Val(pose_landmarks).shoulder)
Returned == pc = "returned" /\ results # None

\* C1: once hip_lift_status or shallow_rep_status is FAIL it is FAIL after every
\* later step of the run, and the returned result carries the statuses the loop
\* ended with.
C1_StickyFaults ==
    [][ /\ hip_lift_status = STATUS_FAIL_HIP => hip_lift_status' = STATUS_FAIL_HIP
        /\ shallow_rep_status = STATUS_FAIL_SHALLOW
              => shallow_rep_status' = STATUS_FAIL_SHALLOW
        /\ results' # None
              => /\ Val(results').hip_lift_status = hip_lift_status
                 /\ Val(results').shallow_rep_status = shallow_rep_status ]_vars

\* a run returned both faults although its last frame was compliant: hip within
\* the threshold of the baseline and no rep judged on it
C1_Witness ==
    /\ Returned
    /\ Val(results).hip_lift_status = STATUS_FAIL_HIP
    /\ Val(results).shallow_rep_status = STATUS_FAIL_SHALLOW
    /\ PoseAndBench
    /\ HipBenchDist <= Val(baseline_hip_bench_dist) + Val(dynamic_hip_threshold)
    /\ fired = {}

\* C2: the baseline is set on the first frame with pose and bench box, to
\* (d, 0.5 * d) for that frame's d = |hip_y - bench_top|, on no other step, and
\* is never changed once set.
C2_SingleCalibration ==
    [][ /\ baseline_hip_bench_dist # None
              => /\ baseline_hip_bench_dist' = baseline_hip_bench_dist
                 /\ dynamic_hip_threshold' = dynamic_hip_threshold
        /\ baseline_hip_bench_dist = None /\ IsFrame /\ PoseAndBench'
              => /\ baseline_hip_bench_dist' = Some(HipBenchDist')
                 /\ dynamic_hip_threshold' # None
                 /\ 2 * Val(dynamic_hip_threshold') = HipBenchDist'
        /\ baseline_hip_bench_dist = None /\ ~(IsFrame /\ PoseAndBench')
              => /\ baseline_hip_bench_dist' = None
                 /\ dynamic_hip_threshold' = None ]_vars

\* a frame with pose and bench box whose distance is below the baseline that an
\* earlier frame set
C2_Witness ==
    /\ baseline_hip_bench_dist # None
    /\ PoseAndBench
    /\ HipBenchDist < Val(baseline_hip_bench_dist)

\* C3: on every frame at most one of Start, Extend-minimum and End is taken; in
\* particular no frame takes both Start and End.
C3_AtMostOneRule == Cardinality(fired) <= 1

\* a frame that started a rep
C3_Witness ==
    /\ fired = {"start"}
    /\ is_in_rep
    /\ PoseAndBar
    /\ min_bar_shoulder_dist = BarShoulderDist

\* C4 as stated: exactly one rule is taken on every frame with a barbell box, none
\* on a frame without.
C4_ExactlyOneRule ==
    /\ frame_idx > 0 /\ bar_box # None => Cardinality(fired) = 1
    /\ bar_box = None => fired = {}

\* C4 amended: on every frame at most one rule is taken, and none is taken exactly
\* when the barbell or the pose is absent, or the tracker is idle and the distance
\* is not below min - 30, or a rep is in progress and the distance is within
\* [min, min + 30].
C4_AtMostOneElseBand ==
    [][ IsFrame =>
          /\ Cardinality(fired') <= 1
          /\ fired' = {} <=>
                \/ bar_box' = None
                \/ pose_landmarks' = None
                \/ /\ ~is_in_rep
                   /\ BarShoulderDist' >= min_bar_shoulder_dist - Px(HYSTERESIS)
                \/ /\ is_in_rep
                   /\ BarShoulderDist' >= min_bar_shoulder_dist
                   /\ BarShoulderDist' <= min_bar_shoulder_dist + Px(HYSTERESIS) ]_vars

\* a frame with barbell and pose, inside a rep, on which no rule was taken
C4_Witness ==
    /\ PoseAndBar
    /\ is_in_rep
    /\ fired = {}
    /\ BarShoulderDist = min_bar_shoulder_dist

\* C5: Start is taken iff barbell and pose are detected, the tracker is idle (and
\* so holds the sentinel 1000) and the distance is below 970; End iff barbell and
\* pose are detected, a rep is in progress and the distance is more than 30 above
\* the tracked minimum; a distance within [min, min + 30] during a rep leaves the
\* tracker as it is.
C5_HysteresisGuards ==
    [][ IsFrame =>
          /\ ~is_in_rep => min_bar_shoulder_dist = Px(SENTINEL_BAR_SHOULDER_DIST)
          /\ "start" \in fired' <=>
                /\ PoseAndBar'
                /\ ~is_in_rep
                /\ BarShoulderDist' < Px(SENTINEL_BAR_SHOULDER_DIST - HYSTERESIS)
          /\ "end" \in fired' <=>
                /\ PoseAndBar'
                /\ is_in_rep
                /\ BarShoulderDist' > min_bar_shoulder_dist + Px(HYSTERESIS)
          /\ ( /\ PoseAndBar'
               /\ is_in_rep
               /\ BarShoulderDist' >= min_bar_shoulder_dist
               /\ BarShoulderDist' <= min_bar_shoulder_dist + Px(HYSTERESIS) )
                => /\ fired' = {}
                   /\ UNCHANGED <<is_in_rep, min_bar_shoulder_dist,
                                  min_elbow_y_at_bottom>> ]_vars

\* a frame inside a rep whose distance is exactly 30 above the tracked minimum
C5_Witness ==
    /\ PoseAndBar
    /\ is_in_rep
    /\ fired = {}
    /\ BarShoulderDist = min_bar_shoulder_dist + Px(HYSTERESIS)

\* C6: on a frame where End is taken shallow_rep_status becomes FAIL iff a bench
\* box is present and the tracked min_elbow_y_at_bottom exceeds bench_top + 0.05
\* * |shoulder_y - hip_y| (both coordinates are present on such a frame); else it
\* stays as it was.
C6_ShallowJudgment ==
    [][ IsFrame /\ "end" \in fired' =>
          shallow_rep_status' =
             IF /\ bench_box' # None
                /\ 20 * min_elbow_y_at_bottom >
                      20 * Val(bench_box') + Abs(Val(pose_landmarks').shoulder
                                                  - Val(pose_landmarks').hip)
             THEN STATUS_FAIL_SHALLOW
             ELSE shallow_rep_status ]_vars

\* C7: after a frame on which End was taken the tracker is idle with the sentinels
\* 1000 and 2000, with or without bench box, judged shallow or not.
C7_EndResetsTracker ==
    "end" \in fired =>
        /\ ~is_in_rep
        /\ min_bar_shoulder_dist = Px(SENTINEL_BAR_SHOULDER_DIST)
        /\ min_elbow_y_at_bottom = Px(SENTINEL_ELBOW_Y)

\* a rep ended on a frame without bench box
C7_Witness ==
    /\ fired = {"end"}
    /\ bench_box = None
    /\ ~is_in_rep

\* C8: hip_lift_status is FAIL after a frame iff it was FAIL before it or the
\* frame comes after the calibration frame, has pose and bench box, and its
\* distance exceeds 1.5 times the baseline; the returned result carries the
\* status the loop ended with.
C8_HipLiftRule ==
    [][ /\ IsFrame =>
             ( hip_lift_status' = STATUS_FAIL_HIP <=>
                  \/ hip_lift_status = STATUS_FAIL_HIP
                  \/ /\ baseline_hip_bench_dist # None
                     /\ PoseAndBench'
                     /\ 2 * HipBenchDist' > 3 * Val(baseline_hip_bench_dist) )
        /\ ~IsFrame => hip_lift_status' = hip_lift_status
        /\ results' # None =>
             ( Val(results').hip_lift_status = STATUS_FAIL_HIP <=>
                  hip_lift_status = STATUS_FAIL_HIP ) ]_vars

\* a returned run whose last frame latched the hip lift
C8_Witness ==
    /\ Returned
    /\ Val(results).hip_lift_status = STATUS_FAIL_HIP
    /\ PoseAndBench
    /\ 2 * HipBenchDist > 3 * Val(baseline_hip_bench_dist)

\* C9: a step taken while no baseline exists, the calibration frame included,
\* leaves hip_lift_status OK.
C9_NoFailBeforeCalibration ==
    [][ baseline_hip_bench_dist = None => hip_lift_status' = STATUS_OK ]_vars

\* the calibration frame measured a distance of 0
C9_Witness ==
    /\ frame_idx = 1
    /\ PoseAndBench
    /\ HipBenchDist = 0
    /\ baseline_hip_bench_dist = Some(0)
    /\ hip_lift_status = STATUS_OK

\* C10: while no frame of the run has had a bench box, both statuses are OK and
\* the overall status, per frame and in the returned result, is GOOD REP.
C10_NoBenchNoFault ==
    ~bench_ever =>
        /\ hip_lift_status = STATUS_OK
        /\ shallow_rep_status = STATUS_OK
        /\ overall_status # None => Val(overall_status) = STATUS_GOOD_REP
        /\ results # None =>
              /\ Val(results).hip_lift_status = STATUS_OK
              /\ Val(results).shallow_rep_status = STATUS_OK
              /\ Val(results).overall_status = STATUS_GOOD_REP

\* a returned run without any bench box whose last frame ended a rep
C10_Witness ==
    /\ Returned
    /\ ~bench_ever
    /\ fired = {"end"}
    /\ Val(results).overall_status = STATUS_GOOD_REP

\* ------------------------------------------------------------------ histories
\* frame i of the run had pose and barbell; its bar to shoulder distance
HadPoseAndBar(i) == trace[i].pose # None /\ trace[i].bar # None
DistAt(i) == Abs(Val(trace[i].bar) - Val(trace[i].pose).shoulder)
AllPoseAndBarBelowStart ==
    /\ Len(trace) >= 1
    /\ \A i \in 1..Len(trace) :
          HadPoseAndBar(i) /\ DistAt(i) < Px(SENTINEL_BAR_SHOULDER_DIST - HYSTERESIS)
\* the number of frames so far on which rule r was taken
Taken(r) == Cardinality({i \in 1..Len(trace) : r \in trace[i].fired})

\* the frames so far all have pose and barbell, and their distance starts below
\* 970 and strictly decreases
Descending ==
    /\ AllPoseAndBarBelowStart
    /\ \A i \in 2..Len(trace) : DistAt(i) < DistAt(i - 1)

\* C11: after a run of frames with pose and barbell whose distance starts below
\* 970 and strictly decreases, Start was taken on the first frame, Extend on
\* every later one (so no End), and the tracker is in a rep with the last
\* distance as its minimum.
C11_DescentTracking ==
    Descending =>
        /\ trace[1].fired = {"start"}
        /\ \A i \in 2..Len(trace) : trace[i].fired = {"extend"}
        /\ is_in_rep
        /\ min_bar_shoulder_dist = DistAt(Len(trace))

\* a descent over four frames
C11_Witness ==
    /\ Descending
    /\ Len(trace) >= 4
    /\ Taken("extend") >= 3

\* the frames so far all have pose and barbell with distances below 970, which
\* strictly decrease to frame k and strictly increase after it, ending more than
\* 30 above the minimum
VShape ==
    /\ AllPoseAndBarBelowStart
    /\ \E k \in 1..Len(trace) :
          /\ \A i \in 2..k : DistAt(i) < DistAt(i - 1)
          /\ \A i \in (k + 1)..Len(trace) : DistAt(i) > DistAt(i - 1)
          /\ DistAt(Len(trace)) > DistAt(k) + Px(HYSTERESIS)

\* C20: over one lowering-and-raising cycle exactly one Start and exactly one End
\* are taken.
C20_OneRepPerCycle ==
    VShape => Taken("start") = 1 /\ Taken("end") = 1

C13_ZeroFpsCompletes ==
    fps = 0 /\ frame_idx >= 1 => pc # "raised"

\* the elbow samples received so far, in frame order
Samples ==
    LET ts == SelectSeq(trace, LAMBDA t : t.pose # None)
    IN  [i \in 1..Len(ts) |-> Val(ts[i].pose).elbow]
LastN(q, n) == SubSeq(q, (IF Len(q) > n THEN Len(q) - n ELSE 0) + 1, Len(q))

\* C14: the window holds the last min(n, 5) of the n elbow samples received, in
\* order, never more than 5, and on a frame with a sample the smoothed value
\* times the length of the window is the sum of the window.
C14_SmoothingWindow ==
    /\ Len(elbow_y_buffer) <= 5
    /\ elbow_y_buffer = LastN(Samples, 5)
    /\ smoothed_elbow_y # None <=> (pc # "ready" /\ pose_landmarks # None)
    /\ smoothed_elbow_y # None =>
          Val(smoothed_elbow_y) * Len(elbow_y_buffer) = SumSeq(elbow_y_buffer)

\* six samples or more, with a frame without sample among them, and a full
\* window that holds both sample values
C14_Witness ==
    /\ Len(Samples) >= 6
    /\ Len(trace) > Len(Samples)
    /\ Len(elbow_y_buffer) = 5
    /\ \E i, j \in 1..5 : elbow_y_buffer[i] # elbow_y_buffer[j]
    /\ smoothed_elbow_y # None

C16_NullSemantics ==
    \A i \in 1..Len(time_series_data) :
        LET rec == time_series_data[i]
            t == trace[i]
        IN  /\ rec.bench_detected <=> t.bench # None
            /\ rec.bar_detected <=> t.bar # None
            /\ t.pose = None =>
                  rec.hip_y = None /\ rec.elbow_y = None /\ rec.shoulder_y = None
            /\ t.pose # None =>
                  /\ rec.hip_y = Some(Val(t.pose).hip)
                  /\ rec.elbow_y = Some(Val(t.pose).elbow)
                  /\ rec.shoulder_y = Some(Val(t.pose).shoulder)

\* C17: on a frame where the torso length is computed (pose and barbell present,
\* so both coordinates are present) it is |shoulder_y - hip_y|.
C17_TorsoLength ==
    avg_torso_length # None =>
        /\ pose_landmarks # None
        /\ Val(avg_torso_length) =
              Abs(Val(pose_landmarks).shoulder - Val(pose_landmarks).hip)

\* C18: a frame without barbell box leaves the tracker and shallow_rep_status as
\* they were, and takes no rule.
C18_NoBarNoChange ==
    [][ IsFrame /\ bar_box' = None =>
          /\ UNCHANGED <<is_in_rep, min_bar_shoulder_dist, min_elbow_y_at_bottom,
                         shallow_rep_status>>
          /\ fired' = {} ]_vars

\* a rep in progress after a frame that had pose and bench box but no barbell
C18_Witness ==
    /\ is_in_rep
    /\ bar_box = None
    /\ PoseAndBench
    /\ frame_idx >= 2
    /\ min_bar_shoulder_dist < Px(SENTINEL_BAR_SHOULDER_DIST)

\* C19: a frame without pose or without bench box leaves the baseline, its
\* threshold and hip_lift_status as they were.
C19_NoHipOrBenchNoChange ==
    [][ IsFrame /\ (pose_landmarks' = None \/ bench_box' = None) =>
          UNCHANGED <<baseline_hip_bench_dist, dynamic_hip_threshold,
                      hip_lift_status>> ]_vars

\* a calibrated run with a latched hip lift, after a frame with pose but no bench
C19_Witness ==
    /\ baseline_hip_bench_dist # None
    /\ hip_lift_status = STATUS_FAIL_HIP
    /\ pose_landmarks # None
    /\ bench_box = None
    /\ pc = "loop"

\* C21: every run starts with all mutable state fresh: no baseline, both
\* statuses OK, empty window, tracker idle with the sentinels 1000 / 2000.
C21_RunIndependence ==
    pc = "loop" /\ frame_idx = 0 =>
        /\ baseline_hip_bench_dist = None
        /\ dynamic_hip_threshold = None
        /\ hip_lift_status = STATUS_OK
        /\ shallow_rep_status = STATUS_OK
        /\ elbow_y_buffer = << >>
        /\ ~is_in_rep
        /\ min_bar_shoulder_dist = Px(SENTINEL_BAR_SHOULDER_DIST)
        /\ min_elbow_y_at_bottom = Px(SENTINEL_ELBOW_Y)

\* ------------------------------------------------------------------ service claims
Posted == response' # None
InputAndModel == INPUT_VIDEO \in files /\ MODEL_PATH \in files
VideoFiles == {INPUT_VIDEO, TempOutput(OUTPUT_VIDEO), OUTPUT_VIDEO, JsonPath(OUTPUT_VIDEO)}

\* C22: no two runs hold a reference to the same analyzer, and a step changes an
\* analyzer only if it is a frame of the one run that refers to it.
C22_NoAliasing ==
    [][ /\ \A t, u \in 1..Len(tasks') :
              t # u /\ tasks'[t].self # 0 => tasks'[t].self # tasks'[u].self
        /\ \A a \in 1..Len(heap) :
              heap'[a] # heap[a] =>
                 \E t \in 1..Len(tasks) :
                    /\ tasks[t].self = a
                    /\ tasks'[t].frames = tasks[t].frames + 1
                    /\ \A u \in 1..Len(tasks) : u # t => tasks[u].self # a ]_vars

\* two runs in their frame loops at once, one with a rep started on its
\* analyzer, the other idle on its own
C22_Witness ==
    /\ Len(tasks) >= 2
    /\ tasks[1].pc = "loop" /\ tasks[2].pc = "loop"
    /\ tasks[1].frames = 1 /\ tasks[2].frames = 1
    /\ heap[tasks[1].self].is_in_rep
    /\ ~heap[tasks[2].self].is_in_rep

C24_SuccessBody ==
    response # None /\ Val(response).code \notin {404, 500} =>
        Val(response).code = 200 /\ Val(response).results # None

\* C25: a POST /analyze adds a run only if input and model exist; without the
\* input it answers 404 "not found", whether or not the model is there,
\* otherwise without the model 500; a rejected POST adds no run and leaves the
\* storage as it is.
C25_ValidationGates ==
    [][ Posted =>
          /\ INPUT_VIDEO \notin files =>
                /\ Val(response').code = 404
                /\ Val(response').detail = Some("Input video file not found")
          /\ INPUT_VIDEO \in files /\ MODEL_PATH \notin files =>
                /\ Val(response').code = 500
                /\ Val(response').detail # None
          /\ ~InputAndModel => tasks' = tasks /\ files' = files /\ heap' = heap
          /\ tasks' # tasks => InputAndModel ]_vars

\* a POST answered 404 while the model is missing as well
C25_Witness ==
    /\ response # None
    /\ Val(response).code = 404
    /\ MODEL_PATH \notin files
    /\ tasks = << >>

\* C26: a run that fails has no result, keeps none afterwards, and the step on
\* which it fails writes no results JSON; a results JSON comes into being only
\* by the step that returns the result of a run that has read its stream to the
\* end.
C26_NoPartialResult ==
    [][ /\ \A t \in 1..Len(tasks) :
              /\ tasks'[t].pc = "failed" => tasks'[t].result = None
              /\ tasks[t].pc = "failed" => tasks'[t] = tasks[t]
              /\ tasks'[t].pc = "failed" /\ tasks[t].pc # "failed" =>
                    (JsonPath(OUTPUT_VIDEO) \in files' <=> JsonPath(OUTPUT_VIDEO) \in files)
        /\ JsonPath(OUTPUT_VIDEO) \in files' /\ JsonPath(OUTPUT_VIDEO) \notin files =>
              \E t \in 1..Len(tasks) :
                 /\ tasks[t].pc = "json"
                 /\ tasks'[t].pc = "done"
                 /\ tasks'[t].result # None ]_vars

\* a run failed on a frame, after one frame was processed: the temporary output
\* is there, a results JSON is not
C26_Witness ==
    /\ Len(tasks) = 1
    /\ tasks[1].pc = "failed"
    /\ tasks[1].frames = 1
    /\ tasks[1].result = None
    /\ TempOutput(OUTPUT_VIDEO) \in files
    /\ JsonPath(OUTPUT_VIDEO) \notin files

\* C27: the POST /analyze of a run in which the analyzer raised was answered 500.
C27_FailureReported ==
    \A t \in 1..Len(tasks) : tasks[t].pc = "failed" => tasks[t].code = 500

\* C28: after a DELETE with both paths has returned success, with no run
\* around, none of the original, the processed video and the results JSON
\* exists.
C28_DeleteRemovesAll ==
    ( /\ del.pc = "returned"
      /\ ~del.errors
      /\ del.original # None /\ del.processed # None
      /\ tasks = << >> )
    => files \cap {INPUT_VIDEO, OUTPUT_VIDEO, JsonPath(OUTPUT_VIDEO)} = {}

\* C29: a DELETE with both paths was called while a run was in flight, on a
\* storage without a stray results JSON; once it has returned without error and
\* every run is over, no file of the video exists.
C29_DeleteDuringRun ==
    ( /\ del.pc = "returned"
      /\ ~del.errors
      /\ del.inflight
      /\ del.original # None /\ del.processed # None
      /\ JsonPath(OUTPUT_VIDEO) \in del.before => OUTPUT_VIDEO \in del.before
      /\ \A t \in 1..Len(tasks) : ~InFlight(tasks[t]) )
    => files \cap VideoFiles = {}

\* C30: a step of the loop consumes exactly one frame, the next one of the
\* stream; the state of the engine changes only where a frame is consumed (or
\* the run begins); and every run eventually returns a result or raises.
C30_SequentialCompletion ==
    /\ [][ /\ IsFrame =>
                /\ pc = "loop"
                /\ Len(trace') = Len(trace) + 1
                /\ frame_idx' = Len(trace')
                /\ SubSeq(trace', 1, Len(trace)) = trace
           /\ ~UNCHANGED <<is_in_rep, min_bar_shoulder_dist, min_elbow_y_at_bottom,
                           baseline_hip_bench_dist, dynamic_hip_threshold,
                           hip_lift_status, shallow_rep_status, elbow_y_buffer>>
                => IsFrame
           /\ pc \in {"returned", "raised"} => pc' = pc
           /\ pc' = "returned" <=> results' # None ]_vars
    /\ <>(pc \in {"returned", "raised"})

\* a run that read three frames and returned in the middle of a rep
C30_Witness ==
    /\ Returned
    /\ Len(trace) = 3
    /\ frame_idx = 3
    /\ is_in_rep

\* ------------------------------------------------------------------ tracker claims
\* C31: in a run on a fresh analyzer, whenever no rep is in progress the tracked
\* minima are the sentinels 1000 and 2000.
C31_IdleSentinels ==
    ~is_in_rep =>
        /\ min_bar_shoulder_dist = Px(SENTINEL_BAR_SHOULDER_DIST)
        /\ min_elbow_y_at_bottom = Px(SENTINEL_ELBOW_Y)

\* idle again after a rep has ended
C31_Witness ==
    /\ ~is_in_rep
    /\ "end" \in fired
    /\ frame_idx >= 2
    /\ min_bar_shoulder_dist = Px(SENTINEL_BAR_SHOULDER_DIST)

\* the frame that started the rep in progress, and the distances seen since
LastStart ==
    CHOOSE k \in 1..Len(trace) :
        /\ "start" \in trace[k].fired
        /\ \A j \in (k + 1)..Len(trace) : "start" \notin trace[j].fired
RepDists == {DistAt(i) : i \in {j \in LastStart..Len(trace) : HadPoseAndBar(j)}}
MinOf(S) == CHOOSE m \in S : \A x \in S : m <= x
TrackedIsMinimum ==
    is_in_rep =>
        /\ Taken("start") >= 1
        /\ min_bar_shoulder_dist = MinOf(RepDists)
        /\ min_bar_shoulder_dist < Px(SENTINEL_BAR_SHOULDER_DIST - HYSTERESIS)

\* C32: while a rep is in progress min_bar_shoulder_dist is the minimum of the
\* distances of the frames with barbell since the Start of the rep, it is below
\* 970, and it does not increase from one frame of the rep to the next.
C32_TrackedMinimum ==
    [][ /\ TrackedIsMinimum'
        /\ is_in_rep /\ is_in_rep' => min_bar_shoulder_dist' <= min_bar_shoulder_dist
      ]_vars

\* in a rep, after an Extend, on a frame whose distance is above the minimum
C32_Witness ==
    /\ is_in_rep
    /\ Taken("extend") >= 1
    /\ PoseAndBar
    /\ fired = {}
    /\ BarShoulderDist > min_bar_shoulder_dist

\* C33: Start and Extend store the smoothed elbow of their frame together with
\* the distance, every other frame of a rep leaves both, and End judges the
\* stored elbow against the bench top and the torso threshold of its frame.
C33_ElbowAtBottom ==
    [][ IsFrame =>
          /\ fired' \cap {"start", "extend"} # {} =>
                /\ min_elbow_y_at_bottom' = Val(smoothed_elbow_y')
                /\ min_bar_shoulder_dist' = BarShoulderDist'
          /\ is_in_rep' /\ fired' \cap {"start", "extend"} = {} =>
                UNCHANGED <<min_elbow_y_at_bottom, min_bar_shoulder_dist>>
          /\ "end" \in fired' =>
                ( shallow_rep_status' = STATUS_FAIL_SHALLOW <=>
                    \/ shallow_rep_status = STATUS_FAIL_SHALLOW
                    \/ /\ bench_box' # None
                       /\ min_elbow_y_at_bottom >
                             Val(bench_box') + Times(Val(avg_torso_length'),
                                                     SHALLOW_REP_RATIO) ) ]_vars

\* an Extend frame whose smoothed elbow differs from the elbow of the frame
C33_Witness ==
    /\ fired = {"extend"}
    /\ is_in_rep
    /\ Val(smoothed_elbow_y) # Val(pose_landmarks).elbow
    /\ min_elbow_y_at_bottom = Val(smoothed_elbow_y)

NoEndTaken == Taken("end") = 0

\* C34: shallow_rep_status changes only from OK to FAIL and only on a frame
\* that takes End; the return does not judge a rep in progress, and a run
\* without an End returns shallow_rep_status OK.
C34_JudgedOnlyAtEnd ==
    [][ /\ shallow_rep_status' # shallow_rep_status =>
              /\ IsFrame
              /\ "end" \in fired'
              /\ shallow_rep_status = STATUS_OK
              /\ shallow_rep_status' = STATUS_FAIL_SHALLOW
        /\ results' # None /\ results = None =>
              Val(results').shallow_rep_status = shallow_rep_status
        /\ results' # None /\ NoEndTaken' =>
              Val(results').shallow_rep_status = STATUS_OK ]_vars

\* a run returned in the middle of a rep whose bottom was too high
C34_Witness ==
    /\ Returned
    /\ is_in_rep
    /\ NoEndTaken
    /\ bench_box # None
    /\ avg_torso_length # None
    /\ min_elbow_y_at_bottom >
          Val(bench_box) + Times(Val(avg_torso_length), SHALLOW_REP_RATIO)
    /\ Val(results).shallow_rep_status = STATUS_OK

\* C35: the hip lift outcome of a frame follows from the hip distance and the
\* baseline alone and the frame's rule from the tracker and the bar distance
\* alone; a frame without bench box leaves the baseline, a frame without barbell
\* leaves the tracker and shallow_rep_status.
C35_IndependentFaults ==
    [][ IsFrame =>
          /\ hip_lift_status' = STATUS_FAIL_HIP <=>
                \/ hip_lift_status = STATUS_FAIL_HIP
                \/ /\ PoseAndBench'
                   /\ HipBenchDist' > Val(baseline_hip_bench_dist')
                                        + Val(dynamic_hip_threshold')
          /\ ~PoseAndBench' =>
                UNCHANGED <<baseline_hip_bench_dist, dynamic_hip_threshold>>
          /\ ~PoseAndBar' =>
                /\ UNCHANGED <<is_in_rep, min_bar_shoulder_dist,
                               min_elbow_y_at_bottom, shallow_rep_status>>
                /\ fired' = {}
          /\ PoseAndBar' =>
                /\ "start" \in fired' <=>
                      /\ ~is_in_rep
                      /\ BarShoulderDist' < min_bar_shoulder_dist - Px(HYSTERESIS)
                /\ "end" \in fired' <=>
                      /\ is_in_rep
                      /\ BarShoulderDist' > min_bar_shoulder_dist + Px(HYSTERESIS)
          /\ shallow_rep_status' # shallow_rep_status => "end" \in fired' ]_vars

\* hip lift latched on the second frame, which had no barbell, with no rep in
\* progress
C35_Witness ==
    /\ frame_idx = 2
    /\ hip_lift_status = STATUS_FAIL_HIP
    /\ PoseAndBench
    /\ HipBenchDist > Val(baseline_hip_bench_dist) + Val(dynamic_hip_threshold)
    /\ bar_box = None
    /\ ~is_in_rep
    /\ shallow_rep_status = STATUS_OK

C37_FrameCountIsLogLength ==
    Returned =>
        /\ Val(results).total_frames = Len(time_series_data)
        /\ fps > 0 => Val(results).video_duration = <<Len(time_series_data), fps>>

\* C38: when a run has returned its result, and no other run or request has
\* touched the storage, the processed video exists at the output path, the
\* temporary output does not exist, and the results JSON exists at a path that
\* is not the path of the video; for every output path.
C38_OutputArtifacts ==
    Len(tasks) = 1 /\ tasks[1].pc = "done" =>
        /\ tasks[1].output \in files
        /\ TempOutput(tasks[1].output) \notin files
        /\ JsonPath(tasks[1].output) \in files
        /\ JsonPath(tasks[1].output) # tasks[1].output
====
